---- MODULE Spec2Model ----
(***************************************************************************)
(* SciRadar: the data-to-geometry engine of src/src/SciRadar.jsx (the      *)
(* script of lines 292-921): parseData, initDimensionConfig, initColors,   *)
(* the dimension-control handlers, drawChart's range and ratio             *)
(* computation, updateChart and updateConfig.                              *)
(*                                                                         *)
(* Representation.  A JavaScript string is a sequence of one-character     *)
(* strings.  A JavaScript number is an integer counting TENTHS (15 is      *)
(* 1.5), or one of the three values Infinity, -Infinity and NaN below.     *)
(* Arithmetic on the finite values is exact; the input values used are     *)
(* ones on which IEEE-754 doubles and exact arithmetic give the same       *)
(* floor/ceil results.  A ratio is a fraction [n, d] (see Div).            *)
(*                                                                         *)
(* Eval(F, x) below is F(x) with x evaluated once, before F is applied:    *)
(* it stands where the script binds a const or passes a computed value.    *)
(***************************************************************************)
EXTENDS Integers, Sequences, FiniteSets, TLC

VARIABLES
    inputText,        \* value of the textarea #dataInput
    chartData,        \* let chartData = []
    models,           \* let models = []
    dimensions,       \* let dimensions = []
    colors,           \* let colors = {}
    dimensionConfig,  \* let dimensionConfig = {}
    config,           \* let config = {...}: the fields autoScale, integerTicks
    rendered,         \* what the last drawChart() computed: ranges and points
    lastOp,           \* the handler that ran last, with its arguments
    edits             \* how many min/max edits the user has made

vars == <<inputText, chartData, models, dimensions, colors, dimensionConfig,
          config, rendered, lastOp, edits>>

\* F(x), with x evaluated first
Eval(F(_), x) == CHOOSE r \in {F(v) : v \in {x}} : TRUE

-----------------------------------------------------------------------------
(* JavaScript numbers *)

Infinity == 1000000
NegInfinity == 0 - Infinity
NaN == 2 * Infinity

isNaN(v) == v = NaN
IsFinite(v) == v # NaN /\ v # Infinity /\ v # NegInfinity

\* a < b, a > b, a >= b, a <= b: every comparison with NaN is false
Lt(a, b) == ~isNaN(a) /\ ~isNaN(b) /\ a < b
Gt(a, b) == ~isNaN(a) /\ ~isNaN(b) /\ a > b
Ge(a, b) == ~isNaN(a) /\ ~isNaN(b) /\ a >= b
Le(a, b) == ~isNaN(a) /\ ~isNaN(b) /\ a <= b

\* a - b
Sub(a, b) ==
    IF isNaN(a) \/ isNaN(b) THEN NaN
    ELSE IF ~IsFinite(a) /\ ~IsFinite(b)
         THEN (IF a = b THEN NaN ELSE a)
    ELSE IF ~IsFinite(a) THEN a
    ELSE IF ~IsFinite(b) THEN 0 - b
    ELSE a - b

\* a + b
Add(a, b) ==
    IF isNaN(a) \/ isNaN(b) THEN NaN
    ELSE IF ~IsFinite(a) /\ ~IsFinite(b)
         THEN (IF a = b THEN a ELSE NaN)
    ELSE IF ~IsFinite(a) THEN a
    ELSE IF ~IsFinite(b) THEN b
    ELSE a + b

\* x || dflt on numbers: 0 and NaN are falsy
OrElse(x, dflt) == IF x = 0 \/ isNaN(x) THEN dflt ELSE x

\* Math.round(v): the nearest integer, halves towards +Infinity
MathRound(v) == IF IsFinite(v) THEN ((v + 5) \div 10) * 10 ELSE v

CeilDiv(a, b) == 0 - ((0 - a) \div b)

\* Math.floor(v * 0.9 / 10) * 10
FloorTens09(v) == IF IsFinite(v) THEN ((9 * v) \div 1000) * 100 ELSE v
\* The products are products of doubles.  Of the numbers the inputs hold,
\* v * 1.1 comes out above the exact product for 50, 90, 100, 1500 and 1600
\* (50 * 1.1 is 55.00000000000001, 100 * 1.1 / 10 is 11.000000000000002), so
\* Math.ceil steps to the next integer where the exact product is one; for
\* the other numbers, and for v * 0.9 under Math.floor, the double rounds as
\* the exact product does.
ProductAbove == {500, 900, 1000, 15000, 16000}
\* Math.ceil(v * 1.1 / 10) * 10
CeilTens11(v) ==
    IF ~IsFinite(v) THEN v
    ELSE IF v \in ProductAbove /\ (11 * v) % 1000 = 0
         THEN CeilDiv(11 * v, 1000) * 100 + 100
    ELSE CeilDiv(11 * v, 1000) * 100
\* Math.floor(v * 0.9)
Floor09(v) == IF IsFinite(v) THEN ((9 * v) \div 100) * 10 ELSE v
\* Math.ceil(v * 1.1)
Ceil11(v) ==
    IF ~IsFinite(v) THEN v
    ELSE IF v \in ProductAbove /\ (11 * v) % 100 = 0
         THEN CeilDiv(11 * v, 100) * 10 + 10
    ELSE CeilDiv(11 * v, 100) * 10

RECURSIVE MathMin(_)
\* Math.min(...values); Infinity for no values
MathMin(values) ==
    IF values = <<>> THEN Infinity
    ELSE LET h == Head(values)
             r == MathMin(Tail(values))
         IN IF isNaN(h) \/ isNaN(r) THEN NaN ELSE IF h < r THEN h ELSE r

RECURSIVE MathMax(_)
\* Math.max(...values); -Infinity for no values
MathMax(values) ==
    IF values = <<>> THEN NegInfinity
    ELSE LET h == Head(values)
             r == MathMax(Tail(values))
         IN IF isNaN(h) \/ isNaN(r) THEN NaN ELSE IF h > r THEN h ELSE r

(* Fractions: the result of a division.  [n, d] with d > 0 is n/d;         *)
(* d = 0 stands for the non-finite results: n = 1 Infinity, n = -1         *)
(* -Infinity, n = 0 NaN.                                                   *)
Frac(n, d) == [n |-> n, d |-> d]
FracNaN == Frac(0, 0)
FracIsNaN(r) == r.d = 0 /\ r.n = 0
Sign(v) == IF v > 0 THEN 1 ELSE IF v < 0 THEN 0 - 1 ELSE 0

\* a / b
Div(a, b) ==
    IF isNaN(a) \/ isNaN(b) THEN FracNaN
    ELSE IF ~IsFinite(a) /\ ~IsFinite(b) THEN FracNaN
    ELSE IF ~IsFinite(b) THEN Frac(0, 1)
    ELSE IF b = 0 THEN Frac(Sign(a), 0)
    ELSE IF ~IsFinite(a) THEN Frac(Sign(a) * Sign(b), 0)
    ELSE IF b > 0 THEN Frac(a, b)
    ELSE Frac(0 - a, 0 - b)

\* r < 1, r > 0 on fractions (false for NaN)
FracLtOne(r) == IF r.d = 0 THEN r.n < 0 ELSE r.n < r.d
FracGtZero(r) == r.n > 0

\* Math.min(1, r): NaN if r is NaN
MathMinOne(r) ==
    IF FracIsNaN(r) THEN r ELSE IF FracLtOne(r) THEN r ELSE Frac(1, 1)
\* Math.max(0, r): NaN if r is NaN
MathMaxZero(r) ==
    IF FracIsNaN(r) THEN r ELSE IF FracGtZero(r) THEN r ELSE Frac(0, 1)

-----------------------------------------------------------------------------
(* JavaScript strings *)

Tab == "\t"
NewLine == "\n"
IsSpace(c) == c \in {" ", Tab, NewLine}
Digits == <<"0", "1", "2", "3", "4", "5", "6", "7", "8", "9">>
IsDigit(c) == \E i \in 1..10 : Digits[i] = c
DigitVal(c) == (CHOOSE i \in 1..10 : Digits[i] = c) - 1

SetMin(S) == CHOOSE m \in S : \A k \in S : m <= k
SetMax(S) == CHOOSE m \in S : \A k \in S : m >= k

\* the positions of s that hold no white space
InkPositions(s) == {i \in 1..Len(s) : ~IsSpace(s[i])}

\* s without its leading white space
TrimStart(s) ==
    IF InkPositions(s) = {} THEN <<>>
    ELSE SubSeq(s, SetMin(InkPositions(s)), Len(s))

\* String.prototype.trim
trim(s) ==
    IF InkPositions(s) = {} THEN <<>>
    ELSE SubSeq(s, SetMin(InkPositions(s)), SetMax(InkPositions(s)))

\* String.prototype.includes, for a one-character needle
includes(s, c) == \E i \in 1..Len(s) : s[i] = c

\* the positions of the separator in s, and the j-th of them
SepPositions(s, sep) == {k \in 1..Len(s) : s[k] = sep}
NthSep(s, sep, j) ==
    CHOOSE k \in SepPositions(s, sep) :
        Cardinality({m \in SepPositions(s, sep) : m < k}) = j - 1

\* String.prototype.split, for a one-character separator: the pieces
\* between consecutive separators
split(s, sep) ==
    LET n == Cardinality(SepPositions(s, sep))
    IN [j \in 1..(n + 1) |->
          SubSeq(s,
                 IF j = 1 THEN 1 ELSE NthSep(s, sep, j - 1) + 1,
                 IF j = n + 1 THEN Len(s) ELSE NthSep(s, sep, j) - 1)]

\* length of the longest prefix of s made of digits
DigitRun(s) ==
    LET others == {i \in 1..Len(s) : ~IsDigit(s[i])}
    IN IF others = {} THEN Len(s) ELSE SetMin(others) - 1

RECURSIVE IntOf(_, _)
\* the value of the first n characters of ds, all digits
IntOf(ds, n) ==
    IF n = 0 THEN 0 ELSE 10 * IntOf(ds, n - 1) + DigitVal(ds[n])

InfinityWord == <<"I", "n", "f", "i", "n", "i", "t", "y">>
StartsWith(s, p) == Len(s) >= Len(p) /\ SubSeq(s, 1, Len(p)) = p

\* the decimal literal at the start of u, which has no sign; NaN for none
ParseUnsigned(u) ==
    LET ni == DigitRun(u)
        hasDot == ni < Len(u) /\ u[ni + 1] = "."
        fracPart == IF hasDot THEN SubSeq(u, ni + 2, Len(u)) ELSE <<>>
        nf == DigitRun(fracPart)
    IN IF StartsWith(u, InfinityWord) THEN Infinity
       ELSE IF ni = 0 /\ nf = 0 THEN NaN
       ELSE 10 * IntOf(u, ni) + (IF nf > 0 THEN DigitVal(fracPart[1]) ELSE 0)

\* the string after leading white space and an optional sign
ParseSigned(t) ==
    LET signed == t # <<>> /\ t[1] \in {"-", "+"}
        mag == Eval(ParseUnsigned, IF signed THEN Tail(t) ELSE t)
    IN IF t # <<>> /\ t[1] = "-" /\ ~isNaN(mag) THEN 0 - mag ELSE mag

(* parseFloat(s): leading white space is skipped, then the longest prefix  *)
(* that is a decimal literal is read: an optional sign, then Infinity, or  *)
(* digits with an optional fraction; NaN when there is no such prefix.     *)
(* The result is in tenths: a fraction's first digit is kept (the inputs   *)
(* carry at most one), and exponents do not occur in the inputs.           *)
parseFloat(s) == Eval(ParseSigned, TrimStart(s))

-----------------------------------------------------------------------------
(* parseData *)

\* the property name "subject"
SubjectKey == <<"s", "u", "b", "j", "e", "c", "t">>

\* a property value of a chartData record: a string or a number
Str(s) == [isNum |-> FALSE, num |-> 0, str |-> s]
Num(v) == [isNum |-> TRUE, num |-> v, str |-> <<>>]

\* obj[key] = val on an object kept as a function from property names
SetProp(obj, key, val) ==
    [k \in (DOMAIN obj) \cup {key} |-> IF k = key THEN val ELSE obj[k]]

\* row.split(delimiter).map(cell => cell.trim())
SplitRow(row, delimiter) ==
    Eval(LAMBDA cells : [i \in 1..Len(cells) |-> trim(cells[i])],
         split(row, delimiter))

\* parseFloat(row[dimIndex + 1]), isNaN(val) ? 0 : val; dimIndex counts
\* from 0 and a missing cell is undefined, which parses to NaN
CellValue(row, dimIndex) ==
    Eval(LAMBDA val : IF isNaN(val) THEN 0 ELSE val,
         IF dimIndex + 2 <= Len(row) THEN parseFloat(row[dimIndex + 2])
         ELSE NaN)

RECURSIVE FillPoint(_, _, _, _)
\* dataRows.forEach(row => { dataPoint[row[0]] = ... }), from row k on
FillPoint(dataPoint, dataRows, k, dimIndex) ==
    IF k > Len(dataRows) THEN dataPoint
    ELSE Eval(LAMBDA dp : FillPoint(dp, dataRows, k + 1, dimIndex),
              SetProp(dataPoint, dataRows[k][1],
                      Num(CellValue(dataRows[k], dimIndex))))

NullResult ==
    [isNull |-> TRUE, chartData |-> <<>>, models |-> <<>>, dimensions |-> <<>>]

\* text.trim().split('\n'), each line split by the delimiter of the first
LinesToRows(lines) ==
    LET delimiter == IF includes(lines[1], Tab) THEN Tab ELSE ","
    IN [i \in 1..Len(lines) |-> SplitRow(lines[i], delimiter)]

\* the rows parseData works on
ParseRows(text) ==
    Eval(LinesToRows, Eval(LAMBDA t : split(t, NewLine), trim(text)))

\* BuildModel without headers.slice(1): the first header cell kept
BuildModelKeepFirst(headers, dataRows) ==
    [isNull |-> FALSE,
     chartData |-> [i \in 1..Len(headers) |->
                      FillPoint(SetProp(<<>>, SubjectKey, Str(headers[i])),
                                dataRows, 1, i - 1)],
     models |-> [i \in 1..Len(dataRows) |-> dataRows[i][1]],
     dimensions |-> headers]

\* the model parseData builds from the header row and the data rows
BuildModel(headers, dataRows) ==
    [isNull |-> FALSE,
     chartData |-> [i \in 1..(Len(headers) - 1) |->
                      FillPoint(SetProp(<<>>, SubjectKey, Str(headers[i + 1])),
                                dataRows, 1, i - 1)],
     models |-> [i \in 1..Len(dataRows) |-> dataRows[i][1]],
     dimensions |-> Tail(headers)]

\* BuildResult without the rows.length < 2 test
BuildResultUnchecked(rows) ==
    Eval(LAMBDA dataRows : BuildModel(rows[1], dataRows), Tail(rows))

\* parseData once the rows are split
BuildResult(rows) ==
    IF Len(rows) < 2 THEN NullResult
    ELSE Eval(LAMBDA dataRows : BuildModel(rows[1], dataRows), Tail(rows))

parseData(text) == Eval(BuildResult, ParseRows(text))

-----------------------------------------------------------------------------
(* initDimensionConfig, initColors *)

DEFAULT_COLORS ==
    <<"#34a853", "#ea4335", "#4285f4", "#fbbc05", "#8e44ad", "#2c3e50",
      "#e67e22">>

RECURSIVE Concat(_, _)
\* the concatenation of the sequences seqs[k], seqs[k+1], ... (flatMap)
Concat(seqs, k) ==
    IF k > Len(seqs) THEN <<>> ELSE seqs[k] \o Concat(seqs, k + 1)

\* models.map(model => d[model]) for each record d, flattened, without NaN
ValuesOf(matching, ms) ==
    SelectSeq(Concat([i \in 1..Len(matching) |->
                        [j \in 1..Len(ms) |-> matching[i][ms[j]].num]], 1),
              LAMBDA v : ~isNaN(v))

\* chartData.filter(d => d.subject === dim)
\*          .flatMap(d => models.map(model => d[model]))
\*          .filter(v => !isNaN(v))
DimValues(cd, ms, dim) ==
    Eval(LAMBDA matching : ValuesOf(matching, ms),
         SelectSeq(cd, LAMBDA d : d[SubjectKey] = Str(dim)))

\* RoundedEntry rounding to multiples of 1 whatever config.integerTicks
RoundedEntryDecimal(minValue, maxValue, integerTicks) ==
    [min |-> Floor09(minValue), max |-> Ceil11(maxValue),
     unit |-> <<>>, reverse |-> FALSE]

\* roundedMin and roundedMax of initDimensionConfig
RoundedEntry(minValue, maxValue, integerTicks) ==
    LET roundedMin == IF integerTicks THEN FloorTens09(minValue)
                      ELSE Floor09(minValue)
        roundedMax == IF integerTicks THEN CeilTens11(maxValue)
                      ELSE Ceil11(maxValue)
    IN [min |-> IF integerTicks /\ Lt(roundedMin, 0) /\ Ge(minValue, 0)
                THEN 0 ELSE roundedMin,
        max |-> roundedMax, unit |-> <<>>, reverse |-> FALSE]

\* the entry initDimensionConfig stores for a dimension that has none
NewDimensionEntry(cd, ms, cfg, dim) ==
    Eval(LAMBDA values :
            RoundedEntry(MathMin(values), MathMax(values), cfg.integerTicks),
         DimValues(cd, ms, dim))

RECURSIVE InitDimensionsFrom(_, _, _, _, _, _)
InitDimensionsFrom(dimensionList, k, dc, cd, ms, cfg) ==
    IF k > Len(dimensionList) THEN dc
    ELSE Eval(LAMBDA dc1 : InitDimensionsFrom(dimensionList, k + 1, dc1, cd, ms, cfg),
              IF dimensionList[k] \in DOMAIN dc THEN dc
              ELSE SetProp(dc, dimensionList[k],
                           NewDimensionEntry(cd, ms, cfg, dimensionList[k])))

\* dimensionList.forEach(dim => { if (!dimensionConfig[dim]) ... })
initDimensionConfig(dimensionList, dc, cd, ms, cfg) ==
    InitDimensionsFrom(dimensionList, 1, dc, cd, ms, cfg)

RECURSIVE InitColorsFrom(_, _, _)
InitColorsFrom(modelList, i, cols) ==
    IF i > Len(modelList) THEN cols
    ELSE Eval(LAMBDA cols1 : InitColorsFrom(modelList, i + 1, cols1),
              IF modelList[i] \in DOMAIN cols THEN cols
              ELSE SetProp(cols, modelList[i],
                           DEFAULT_COLORS[((i - 1) % Len(DEFAULT_COLORS)) + 1]))

RECURSIVE AssignColorsFrom(_, _, _)
AssignColorsFrom(modelList, i, cols) ==
    IF i > Len(modelList) THEN cols
    ELSE Eval(LAMBDA cols1 : AssignColorsFrom(modelList, i + 1, cols1),
              SetProp(cols, modelList[i],
                      DEFAULT_COLORS[((i - 1) % Len(DEFAULT_COLORS)) + 1]))

\* initColors without the !colors[model] test
initColorsAlways(modelList, cols) == AssignColorsFrom(modelList, 1, cols)

\* modelList.forEach((model, i) => { if (!colors[model]) ... })
initColors(modelList, cols) == InitColorsFrom(modelList, 1, cols)

-----------------------------------------------------------------------------
(* drawChart: the per-dimension ranges and the points of every model *)

\* AutoBounds without the padding and the rounding
AutoBoundsUnpadded(values, integerTicks) ==
    [min |-> MathMin(values), max |-> MathMax(values)]

\* minValue and maxValue of drawChart's automatic range
AutoBounds(values, integerTicks) ==
    LET minValue == IF integerTicks THEN FloorTens09(MathMin(values))
                    ELSE Floor09(MathMin(values))
        maxValue == IF integerTicks THEN CeilTens11(MathMax(values))
                    ELSE Ceil11(MathMax(values))
    IN [min |-> IF integerTicks /\ Lt(minValue, 0) /\ Ge(MathMin(values), 0)
                THEN 0 ELSE minValue,
        max |-> maxValue]

\* AutoRange with reverse: false instead of the stored flag
AutoRangeForward(cd, ms, dc, cfg, dim) ==
    Eval(LAMBDA b : [min |-> b.min, max |-> b.max, reverse |-> FALSE],
         Eval(LAMBDA values : AutoBounds(values, cfg.integerTicks),
              DimValues(cd, ms, dim)))

\* the range drawChart computes for a dimension when config.autoScale
AutoRange(cd, ms, dc, cfg, dim) ==
    Eval(LAMBDA b :
            [min |-> b.min, max |-> b.max,
             reverse |-> IF dim \in DOMAIN dc THEN dc[dim].reverse ELSE FALSE],
         Eval(LAMBDA values : AutoBounds(values, cfg.integerTicks),
              DimValues(cd, ms, dim)))

\* the range drawChart takes from dimensionConfig otherwise
ManualRange(dc, dim) ==
    [min |-> OrElse(dc[dim].min, 0), max |-> OrElse(dc[dim].max, 10),
     reverse |-> dc[dim].reverse]

\* const dimensionRanges = dimensions.map(dim => ...)
DimensionRanges(cd, ms, dims, dc, cfg) ==
    [i \in 1..Len(dims) |->
        IF cfg.autoScale THEN AutoRange(cd, ms, dc, cfg, dims[i])
        ELSE ManualRange(dc, dims[i])]

\* Math.max(0, Math.min(1, ratio))
Clamp(r) == MathMaxZero(MathMinOne(r))

\* Ratio dividing also when range.max = range.min
RatioDividing(value, range) ==
    IF Ge(range.max, range.min)
    THEN Clamp(IF range.reverse
               THEN Div(Sub(range.max, value), Sub(range.max, range.min))
               ELSE Div(Sub(value, range.min), Sub(range.max, range.min)))
    ELSE Frac(0, 1)

\* the ratio of a value on an axis
Ratio(value, range) ==
    IF Gt(range.max, range.min)
    THEN Clamp(IF range.reverse
               THEN Div(Sub(range.max, value), Sub(range.max, range.min))
               ELSE Div(Sub(value, range.min), Sub(range.max, range.min)))
    ELSE Frac(0, 1)

\* models.forEach(model => { const points = chartData.map((d, i) => ...) })
Points(cd, ms, ranges) ==
    [j \in 1..Len(ms) |->
        [i \in 1..Len(cd) |->
            [ratio |-> Ratio(OrElse(cd[i][ms[j]].num, 0), ranges[i]),
             value |-> OrElse(cd[i][ms[j]].num, 0),
             reverse |-> ranges[i].reverse]]]

\* chartData.forEach((d, i) => { ... labelText ... }): the axis labels, each
\* the subject of its record and the unit stored under that name ('' if
\* none; a subject that is a number names no entry, no dimension of the
\* inputs being named by a numeral)
Labels(cd, dc) ==
    [i \in 1..Len(cd) |->
        [dim |-> cd[i][SubjectKey],
         unit |-> IF ~cd[i][SubjectKey].isNum
                       /\ cd[i][SubjectKey].str \in DOMAIN dc
                  THEN dc[cd[i][SubjectKey].str].unit ELSE <<>>]]

NothingDrawn ==
    [drawn |-> FALSE, ranges |-> <<>>, labels |-> <<>>, points |-> <<>>]

drawChart(cd, ms, dims, dc, cfg) ==
    IF Len(cd) = 0 \/ Len(ms) = 0 THEN NothingDrawn
    ELSE Eval(LAMBDA dimensionRanges :
                 [drawn |-> TRUE, ranges |-> dimensionRanges,
                  labels |-> Labels(cd, dc),
                  points |-> Points(cd, ms, dimensionRanges)],
              DimensionRanges(cd, ms, dims, dc, cfg))

-----------------------------------------------------------------------------
(* The session and its handlers.  A handler takes the session (the script's *)
(* global variables and the last drawing) and returns the session after it. *)

Session ==
    [chartData |-> chartData, models |-> models, dimensions |-> dimensions,
     colors |-> colors, dimensionConfig |-> dimensionConfig,
     config |-> config, rendered |-> rendered]

\* the script's globals as declared, before updateChart() runs
BlankSession ==
    [chartData |-> <<>>, models |-> <<>>, dimensions |-> <<>>,
     colors |-> <<>>, dimensionConfig |-> <<>>,
     config |-> [autoScale |-> TRUE, integerTicks |-> TRUE],
     rendered |-> NothingDrawn]

\* the session after drawChart()
Drawn(s) ==
    [s EXCEPT !.rendered = drawChart(s.chartData, s.models, s.dimensions,
                                     s.dimensionConfig, s.config)]

\* the session with the globals changed, then drawChart()
Redraw(s) == Eval(Drawn, s)

\* updateChart once parseData has returned
ApplyResult(s, result) ==
    IF result.isNull THEN s
    ELSE Redraw([s EXCEPT
             !.chartData = result.chartData,
             !.models = result.models,
             !.dimensions = result.dimensions,
             !.dimensionConfig =
                 initDimensionConfig(result.dimensions, s.dimensionConfig,
                                     result.chartData, result.models,
                                     s.config),
             !.colors = initColors(result.models, s.colors)])

updateChart(s, text) ==
    Eval(LAMBDA result : ApplyResult(s, result), parseData(text))

\* updateConfig rounding the stored ranges when integer ticks are on
updateConfigRounding(s, autoScale, integerTicks) ==
    Redraw([s EXCEPT
        !.config = [autoScale |-> autoScale, integerTicks |-> integerTicks],
        !.dimensionConfig =
            [d \in DOMAIN s.dimensionConfig |->
                IF integerTicks
                THEN [s.dimensionConfig[d] EXCEPT
                        !.min = MathRound(s.dimensionConfig[d].min),
                        !.max = MathRound(s.dimensionConfig[d].max)]
                ELSE s.dimensionConfig[d]]])

\* updateConfig, with the state of the two checkboxes it reads
updateConfig(s, autoScale, integerTicks) ==
    Redraw([s EXCEPT
        !.config = [autoScale |-> autoScale, integerTicks |-> integerTicks],
        !.dimensionConfig =
            IF autoScale
            THEN initDimensionConfig(s.dimensions, s.dimensionConfig,
                                     s.chartData, s.models,
                                     [autoScale |-> autoScale,
                                      integerTicks |-> integerTicks])
            ELSE s.dimensionConfig])

\* config.integerTicks ? 1 : 0.1
Step(cfg) == IF cfg.integerTicks THEN 10 ELSE 1

\* ClampedValue with > and < for >= and <=
ClampedValueStrict(value, entry, type, step) ==
    IF type = "min"
    THEN (IF Gt(value, entry.max) THEN Sub(entry.max, step) ELSE value)
    ELSE (IF Lt(value, entry.min) THEN Add(entry.min, step) ELSE value)

\* the bound the change handler stores for the number typed
ClampedValue(value, entry, type, step) ==
    IF type = "min"
    THEN (IF Ge(value, entry.max) THEN Sub(entry.max, step) ELSE value)
    ELSE (IF Le(value, entry.min) THEN Add(entry.min, step) ELSE value)

\* the value the change handler of a min or max input stores for the text
\* typed; NaN when the text is no number and the handler does nothing
EditedValue(s, dim, type, text) ==
    Eval(LAMBDA parsed :
            IF isNaN(parsed) THEN NaN
            ELSE ClampedValue(IF s.config.integerTicks THEN MathRound(parsed)
                              ELSE parsed,
                              s.dimensionConfig[dim], type, Step(s.config)),
         parseFloat(text))

\* the change handler of .dimension-min-input and .dimension-max-input
onMinMaxChange(s, dim, type, text) ==
    Eval(LAMBDA value :
            IF isNaN(value) THEN s
            ELSE IF type = "min"
                 THEN Redraw([s EXCEPT !.dimensionConfig[dim].min = value])
                 ELSE Redraw([s EXCEPT !.dimensionConfig[dim].max = value]),
         EditedValue(s, dim, type, text))

\* the input handler of .dimension-unit-input
onUnitInput(s, dim, unit) ==
    Redraw([s EXCEPT !.dimensionConfig[dim].unit = unit])

\* the change handler of .dimension-reverse
onReverseChange(s, dim, checked) ==
    Redraw([s EXCEPT !.dimensionConfig[dim].reverse = checked])

\* the input handler of .color-input
onColorInput(s, model, color) ==
    Redraw([s EXCEPT !.colors[model] = color])

-----------------------------------------------------------------------------
(* Inputs *)

\* the text the page loads in #dataInput
DefaultText ==
    <<
      " ", " ", " ", " ", "M", "o", "d", "e", "l", Tab, "M", "M", "E", Tab,
      "P", "O", "P", "E", Tab, "M", "M", "-", "V", "e", "t", Tab, "V", "i",
      "z", "W", "i", "z", Tab, "L", "L", "a", "V", "A", "-", "B", "e", "n",
      "c", "h", NewLine, " ", " ", " ", " ", "M", "e", "m", "V", "R", Tab,
      "1", "8", "9", "6", Tab, "8", "6", ".", "3", Tab, "5", "6", ".", "7",
      Tab, "6", "5", ".", "2", Tab, "7", "0", ".", "5", NewLine, " ", " ",
      " ", " ", "L", "L", "a", "V", "A", "-", "1", ".", "5", Tab, "1", "5",
      "0", "0", Tab, "8", "0", ".", "1", Tab, "4", "0", ".", "5", Tab, "5",
      "0", ".", "0", Tab, "6", "0", ".", "2", NewLine, " ", " ", " ", " ",
      "O", "P", "E", "R", "A", Tab, "1", "6", "0", "0", Tab, "8", "2", ".",
      "5", Tab, "4", "5", ".", "0", Tab, "5", "5", ".", "1", Tab, "6", "2",
      ".", "8", NewLine, " ", " ", " ", " ", " ", " ", " ", " ", " ", " ",
      " ", " ", " ", " ", " ", " ", " ", " ", " ", " "
    >>

RECURSIVE JoinWith(_, _)
\* the strings of a sequence, joined with a separator
JoinWith(strs, sep) ==
    IF strs = <<>> THEN <<>>
    ELSE IF Len(strs) = 1 THEN strs[1]
    ELSE strs[1] \o sep \o JoinWith(Tail(strs), sep)

\* the text of a table: cells joined by the delimiter, rows by new lines
Table(delim, rows) ==
    JoinWith([i \in 1..Len(rows) |-> JoinWith(rows[i], <<delim>>)], <<NewLine>>)

Range(seq) == {seq[i] : i \in 1..Len(seq)}

cM == <<"M">>
cA == <<"A">>
cB == <<"B">>
cX == <<"X">>
cY == <<"Y">>
c0 == <<"0">>
c5 == <<"5">>
c15 == <<"1", "5">>
c50 == <<"5", "0">>
cNeg50 == <<"-", "5", "0">>
c1p5 == <<"1", ".", "5">>
c7p5 == <<"7", ".", "5">>
cWord == <<"x">>
cEmpty == <<>>

\* the texts pasted into #dataInput during a session
PasteTexts ==
    { Table(Tab, <<<<cM, cA, cB>>, <<cX, c5, c15>>, <<cY, c15, c5>>>>),
      Table(",", <<<<cM, cA>>, <<cY, c0>>, <<cX, c0>>>>),
      Table(",", <<<<cM, cA>>>>),
      <<>> }

(* The texts of the first paste: every table of one or two dimensions and   *)
(* one or two rows over the cells below, tab- or comma-delimited, with a    *)
(* labelled or an empty first header cell, and some irregular texts.        *)
Delims == {Tab, ","}
HeaderFirsts == {cM, cEmpty}
NameLists == {<<cX>>, <<cX, cY>>, <<cX, cX>>, <<SubjectKey, cX>>}
WideCells == {c5, c15, c50, c0, cNeg50, c1p5, cWord, cEmpty, InfinityWord}
FewCells == {c5, c0, cWord}

OneDimTables ==
    { <<<<h, cA>>>> \o [i \in 1..Len(names) |-> <<names[i], cells[i]>>] :
        h \in HeaderFirsts, names \in NameLists,
        cells \in [1..2 -> WideCells] }

TwoDimTables ==
    { <<<<h, cA, d2>>>>
        \o [i \in 1..Len(names) |-> <<names[i], cells[i][1], cells[i][2]>>] :
        h \in HeaderFirsts, d2 \in {cA, cB}, names \in NameLists,
        cells \in [1..2 -> [1..2 -> FewCells]] }

IrregularTexts ==
    { <<" ">> \o Table(",", <<<<cM, <<" ", "A", " ">>>>, <<<<" ", "X">>, <<"5", " ">>>>>>)
        \o <<NewLine, " ">>,
      Table(",", <<<<cM, cA, cB>>, <<cX, c5>>>>),
      Table(",", <<<<cM, cA>>, <<>>, <<cX, c5>>>>),
      Table(Tab, <<<<cM, cA>>, <<<<"X", ",", "5">>>>>>),
      Table(",", <<<<cM>>, <<cX>>>>),
      Table(",", <<<<cM, cA>>>>),
      <<" ", NewLine, Tab>>,
      <<>> }

WideTexts ==
    { Table(delim, t) : delim \in Delims, t \in OneDimTables \cup TwoDimTables }
    \cup IrregularTexts

\* the texts typed into a min or max input
EditTexts == {cEmpty, c0, c7p5}
\* the dimensions whose controls the user touches
EditDims == {cA}
\* the units typed into a unit input
UnitTexts == {<<"m", "s">>}
\* the models whose color picker the user touches, and the color picked
PickModels == {cX}
PickColors == {"#000000"}

\* the user makes at most MaxEdits edits of a dimension's controls (min, max,
\* unit, reverse)
MaxEdits == 2

-----------------------------------------------------------------------------
(* The state machine *)

Op(name, key, field, arg) ==
    [name |-> name, key |-> key, field |-> field, arg |-> arg]

SetSession(s) ==
    /\ chartData' = s.chartData
    /\ models' = s.models
    /\ dimensions' = s.dimensions
    /\ colors' = s.colors
    /\ dimensionConfig' = s.dimensionConfig
    /\ config' = s.config
    /\ rendered' = s.rendered

\* the page as loaded: updateChart() on the default text, then updateConfig()
\* with both checkboxes checked
LoadedSession ==
    Eval(LAMBDA s : updateConfig(s, TRUE, TRUE),
         updateChart(BlankSession, DefaultText))

Init ==
    /\ inputText = DefaultText
    /\ \E s \in {LoadedSession} :
        /\ chartData = s.chartData
        /\ models = s.models
        /\ dimensions = s.dimensions
        /\ colors = s.colors
        /\ dimensionConfig = s.dimensionConfig
        /\ config = s.config
        /\ rendered = s.rendered
    /\ lastOp = Op("load", <<>>, "", <<>>)
    /\ edits = 0

PasteFrom(texts) ==
    \E text \in texts :
        /\ inputText' = text
        /\ \E s \in {updateChart(Session, text)} : SetSession(s)
        /\ lastOp' = Op("paste", <<>>, "", <<>>)
        /\ UNCHANGED edits

\* 'input' on #dataInput
Paste == PasteFrom(PasteTexts)

\* 'input' on #dataInput, for the first paste into the loaded page
FirstPaste == lastOp.name = "load" /\ PasteFrom(WideTexts)

\* 'change' on #autoScale
ToggleAutoScale ==
    /\ \E s \in {updateConfig(Session, ~config.autoScale, config.integerTicks)} :
          SetSession(s)
    /\ lastOp' = Op("autoScale", <<>>, "", <<>>)
    /\ UNCHANGED <<inputText, edits>>

\* 'change' on #integerTicks
ToggleIntegerTicks ==
    /\ \E s \in {updateConfig(Session, config.autoScale, ~config.integerTicks)} :
          SetSession(s)
    /\ lastOp' = Op("integerTicks", <<>>, "", <<>>)
    /\ UNCHANGED <<inputText, edits>>

\* 'change' on a min or max input; the inputs are disabled while autoScale
EditMinMax ==
    \E dim \in Range(dimensions) \cap EditDims, type \in {"min", "max"},
       text \in EditTexts :
        /\ ~config.autoScale
        /\ edits < MaxEdits
        /\ edits' = edits + 1
        /\ \E s \in {onMinMaxChange(Session, dim, type, text)} : SetSession(s)
        /\ lastOp' = Op("edit", dim, type, text)
        /\ UNCHANGED inputText

\* 'input' on a unit input
EditUnit ==
    \E dim \in Range(dimensions) \cap EditDims, unit \in UnitTexts :
        /\ ~config.autoScale
        /\ edits < MaxEdits
        /\ edits' = edits + 1
        /\ \E s \in {onUnitInput(Session, dim, unit)} : SetSession(s)
        /\ lastOp' = Op("unit", dim, "", unit)
        /\ UNCHANGED inputText

\* 'change' on a reverse checkbox
ToggleReverse ==
    \E dim \in Range(dimensions) \cap EditDims :
        /\ ~config.autoScale
        /\ edits < MaxEdits
        /\ edits' = edits + 1
        /\ \E s \in {onReverseChange(Session, dim, ~dimensionConfig[dim].reverse)} :
              SetSession(s)
        /\ lastOp' = Op("reverse", dim, "", <<>>)
        /\ UNCHANGED inputText

\* 'input' on a color picker
PickColor ==
    \E model \in Range(models) \cap PickModels, color \in PickColors :
        /\ \E s \in {onColorInput(Session, model, color)} : SetSession(s)
        /\ lastOp' = Op("color", model, color, <<>>)
        /\ UNCHANGED <<inputText, edits>>

Next ==
    \/ Paste
    \/ ToggleAutoScale
    \/ ToggleIntegerTicks
    \/ EditMinMax
    \/ EditUnit
    \/ ToggleReverse
    \/ PickColor

Spec == Init /\ [][Next]_vars

\* the loaded page, one paste of any of WideTexts, then the check boxes
NextPaste ==
    \/ FirstPaste
    \/ ToggleAutoScale
    \/ ToggleIntegerTicks
    \/ ToggleReverse

SpecPaste == Init /\ [][NextPaste]_vars

-----------------------------------------------------------------------------
(* Properties *)

\* what the properties read off the state
Parsed == parseData(inputText)
Entry(dim) == dimensionConfig[dim]
PointAt(j, i) == rendered.points[j][i]
ModelIndexes == 1..Len(rendered.points)
AxisIndexes == 1..Len(rendered.ranges)

\* fractions: 0 <= r <= 1, a <= b, r = 0, r = 1/2
InUnit(r) == r.d > 0 /\ 0 <= r.n /\ r.n <= r.d
FracLe(a, b) == a.d > 0 /\ b.d > 0 /\ a.n * b.d <= b.n * a.d
FracIsZero(r) == r.d > 0 /\ r.n = 0
FracIsHalf(r) == r.d > 0 /\ 2 * r.n = r.d

\* the number of lines of a text after trimming
LineCount(text) ==
    Eval(LAMBDA t : 1 + Cardinality(SepPositions(t, NewLine)), trim(text))

\* the row of the table that is the last one bearing its series name
IsLastOfName(rows, r) == \A q \in (r + 1)..Len(rows) : rows[q][1] # rows[r][1]

\* C1: every current dimension's stored range, and every range drawChart
\* uses, has max > min strictly.
C1_RangesStrict ==
    /\ \A dim \in Range(dimensions) : Gt(Entry(dim).max, Entry(dim).min)
    /\ \A i \in AxisIndexes : Gt(rendered.ranges[i].max, rendered.ranges[i].min)

\* C2: a series name keeps its color through every step, except the step
\* in which the user picks a color for that very name, which stores the
\* color picked.
C2_ColorsStable ==
    [][\A m \in DOMAIN colors :
          /\ m \in DOMAIN colors'
          /\ colors'[m] # colors[m] =>
                /\ lastOp'.name = "color"
                /\ lastOp'.key = m
                /\ colors'[m] = lastOp'.field]_vars

\* a reparse has just succeeded with X second in the list, and X still has
\* the color the user picked
C2_Witness ==
    /\ lastOp.name = "paste"
    /\ ~Parsed.isNull
    /\ models = <<cY, cX>>
    /\ colors[cX] \in PickColors

\* C3: a paste of a text of fewer than 2 lines makes parseData return null
\* and leaves chartData, models, dimensions, dimensionConfig and colors as
\* they were.
C3_FailedParseKeepsModel ==
    [][(lastOp'.name = "paste" /\ LineCount(inputText') < 2) =>
          /\ parseData(inputText').isNull
          /\ UNCHANGED <<chartData, models, dimensions, dimensionConfig, colors>>]_vars

\* the empty text has just been pasted and the model is still there
C3_Witness ==
    /\ lastOp.name = "paste"
    /\ inputText = <<>>
    /\ chartData # <<>>
    /\ models # <<>>

\* C4: every ratio drawChart computes lies in [0, 1].
C4_RatioInUnit ==
    \A j \in ModelIndexes : \A i \in AxisIndexes : InUnit(PointAt(j, i).ratio)

\* C5: after a successful paste in auto-scale mode the stored min and max
\* of every current dimension are the automatic ones of the current data
\* under the current integer mode.
C5_StoredRangeRecomputed ==
    (lastOp.name = "paste" /\ ~Parsed.isNull /\ config.autoScale) =>
        \A dim \in Range(dimensions) :
            LET auto == AutoBounds(DimValues(chartData, models, dim),
                                   config.integerTicks)
            IN Entry(dim).min = auto.min /\ Entry(dim).max = auto.max

\* the table as the file gives it: the lines of the text, each split by the
\* delimiter of the first line into trimmed cells
FileRows(text) == LinesToRows(split(text, NewLine))

\* C6: for a text of at least 2 lines whose first header cell is empty, the
\* dimensions are the remaining header cells in file order, and the value
\* stored for a series on the j-th dimension is that of the cell in column
\* j+1 of the series' row.
C6_EmptyCornerIgnored ==
    LET rows == FileRows(inputText)
    IN (Len(rows) >= 2 /\ Len(rows[1]) >= 2 /\ rows[1][1] = <<>>) =>
          /\ dimensions = Tail(rows[1])
          /\ Len(chartData) = Len(rows[1]) - 1
          /\ \A r \in 2..Len(rows) : \A j \in 1..(Len(rows[1]) - 1) :
                IsLastOfName(rows, r) =>
                    /\ rows[r][1] \in DOMAIN chartData[j]
                    /\ chartData[j][rows[r][1]].num = CellValue(rows[r], j - 1)

\* C7: a table whose header has h cells and which has r >= 1 data rows
\* gives h-1 dimensions and h-1 chartData records in header order, the
\* i-th record holding the values of column i+1, and r series in row order.
C7_ShapeOfModel ==
    LET t == trim(inputText)
        firstLine == SubSeq(t, 1, SetMin(SepPositions(t, NewLine) \cup {Len(t) + 1}) - 1)
        delimiter == IF includes(firstLine, Tab) THEN Tab ELSE ","
        h == 1 + Cardinality(SepPositions(firstLine, delimiter))
        r == Cardinality(SepPositions(t, NewLine))
        rows == ParseRows(inputText)
    IN r >= 1 =>
          /\ Len(dimensions) = h - 1
          /\ Len(chartData) = h - 1
          /\ Len(models) = r
          /\ \A i \in 1..(h - 1) : dimensions[i] = rows[1][i + 1]
          /\ \A k \in 1..r : models[k] = rows[k + 1][1]
          /\ \A i \in 1..(h - 1) : \A k \in 1..r :
                IsLastOfName(rows, k + 1) =>
                    chartData[i][models[k]].num = CellValue(rows[k + 1], i - 1)

\* a pasted table of three header cells and two data rows is the model
C7_Witness ==
    /\ inputText # DefaultText
    /\ ~Parsed.isNull
    /\ Len(dimensions) = 2
    /\ Len(models) = 2

\* every series reports 5 (50 tenths) on the dimension of axis i
AllReportFive(i) ==
    LET values == DimValues(chartData, models, dimensions[i])
    IN /\ values # <<>>
       /\ \A k \in 1..Len(values) : values[k] = 50
       /\ \A j \in ModelIndexes : PointAt(j, i).value = 50

\* C8, as claimed: when all series report 5 on a dimension the automatic
\* range collapses (max = min) and every ratio on that axis is 0.
C8_FiveCollapses ==
    \A i \in AxisIndexes :
        (config.autoScale /\ AllReportFive(i)) =>
            /\ rendered.ranges[i].max = rendered.ranges[i].min
            /\ \A j \in ModelIndexes : FracIsZero(PointAt(j, i).ratio)

\* C8, amended: when all series report 5 on a dimension the automatic range
\* is 0..10 in integer mode and 4..6 otherwise, and every ratio on that axis
\* is 1/2.
C8_FivePadded ==
    \A i \in AxisIndexes :
        (config.autoScale /\ AllReportFive(i)) =>
            /\ rendered.ranges[i].min = (IF config.integerTicks THEN 0 ELSE 40)
            /\ rendered.ranges[i].max = (IF config.integerTicks THEN 100 ELSE 60)
            /\ \A j \in ModelIndexes : FracIsHalf(PointAt(j, i).ratio)

\* two series report 5 on an axis drawn in auto-scale mode
C8_Witness ==
    /\ config.autoScale
    /\ Len(models) = 2
    /\ \E i \in AxisIndexes : AllReportFive(i)

\* the integer nearest to v, halves upwards
NearestInteger(v) ==
    CHOOSE n \in (v - 5)..(v + 5) : n % 10 = 0 /\ n - 5 <= v /\ v < n + 5

\* C9: an edit of min with the number v stores v' if v' < max and
\* max - step otherwise, an edit of max stores v' if v' > min and
\* min + step otherwise, v' being v rounded in integer mode and step 1 in
\* integer mode and 0.1 otherwise; the other bound keeps its value.
C9_EditStoresClampedBound ==
    [][(lastOp'.name = "edit" /\ ~isNaN(parseFloat(lastOp'.arg))) =>
          LET old == dimensionConfig[lastOp'.key]
              new == dimensionConfig'[lastOp'.key]
              v == parseFloat(lastOp'.arg)
              v1 == IF config.integerTicks THEN NearestInteger(v) ELSE v
              step == IF config.integerTicks THEN 10 ELSE 1
          IN IF lastOp'.field = "min"
             THEN /\ new.min = (IF v1 < old.max THEN v1 ELSE old.max - step)
                  /\ new.max = old.max
             ELSE /\ new.max = (IF v1 > old.min THEN v1 ELSE old.min + step)
                  /\ new.min = old.min]_vars

\* a min edit with a number not below max has just been clamped
C9_Witness ==
    /\ lastOp.name = "edit"
    /\ lastOp.field = "min"
    /\ ~isNaN(parseFloat(lastOp.arg))
    /\ (IF config.integerTicks THEN NearestInteger(parseFloat(lastOp.arg))
        ELSE parseFloat(lastOp.arg)) >= Entry(lastOp.key).max
    /\ Entry(lastOp.key).min = Entry(lastOp.key).max - (IF config.integerTicks THEN 10 ELSE 1)

\* C10: on an axis whose range has max > min, of two values v1 < v2 the
\* smaller has the larger or equal ratio when the axis is reversed and the
\* smaller or equal ratio when it is not.
C10_RatioMonotone ==
    \A i \in AxisIndexes :
        Gt(rendered.ranges[i].max, rendered.ranges[i].min) =>
            \A j \in ModelIndexes : \A k \in ModelIndexes :
                Lt(PointAt(j, i).value, PointAt(k, i).value) =>
                    IF rendered.ranges[i].reverse
                    THEN FracLe(PointAt(k, i).ratio, PointAt(j, i).ratio)
                    ELSE FracLe(PointAt(j, i).ratio, PointAt(k, i).ratio)

\* C11: on an axis whose range has max = min, in auto or manual mode and
\* reversed or not, every ratio is the 0 the code starts from: nothing is
\* divided and no ratio is non-finite.
C11_DegenerateRatioZero ==
    \A i \in AxisIndexes :
        (~isNaN(rendered.ranges[i].max)
            /\ rendered.ranges[i].max = rendered.ranges[i].min) =>
            \A j \in ModelIndexes : PointAt(j, i).ratio = Frac(0, 1)

\* a reversed axis drawn from a stored range with max = min
C11_Witness ==
    /\ ~config.autoScale
    /\ rendered.drawn
    /\ \E i \in AxisIndexes :
          /\ rendered.ranges[i].max = rendered.ranges[i].min
          /\ rendered.ranges[i].reverse
          /\ \A j \in ModelIndexes : PointAt(j, i).ratio = Frac(0, 1)

\* the values the series report on a dimension, read off chartData
ObservedOf(cd, ms, dim) ==
    {cd[r][ms[k]].num : r \in {q \in 1..Len(cd) : cd[q][SubjectKey] = Str(dim)},
                        k \in 1..Len(ms)}
Observed(dim) == ObservedOf(chartData, models, dim)
AllFinite(S) == S # {} /\ \A v \in S : IsFinite(v)
Least(S) == CHOOSE v \in S : \A w \in S : v <= w
Greatest(S) == CHOOSE v \in S : \A w \in S : v >= w

\* R (in tenths) is x (in hundredths) rounded down, or up, to a multiple of
\* unit (in tenths)
RoundsDownTo(R, unit, x) == R % unit = 0 /\ 10 * R <= x /\ x < 10 * (R + unit)
RoundsUpTo(R, unit, x) == R % unit = 0 /\ 10 * (R - unit) < x /\ x <= 10 * R

\* R is the specified automatic min of the observed minimum lo: lo * 0.9
\* rounded down to a multiple of 10 (integer mode) or of 1, and 0 if that
\* is negative while lo is not
IsSpecifiedMin(R, lo, integerMode) ==
    IF 9 * lo < 0 /\ lo >= 0 THEN R = 0
    ELSE RoundsDownTo(R, IF integerMode THEN 100 ELSE 10, 9 * lo)

\* R is the specified automatic max of the observed maximum hi: hi * 1.1
\* rounded up to a multiple of 10 (integer mode) or of 1
IsSpecifiedMax(R, hi, integerMode) ==
    RoundsUpTo(R, IF integerMode THEN 100 ELSE 10, 11 * hi)

\* C12: a toggle of integer mode with auto-scale off leaves the min and max
\* of every stored entry as they were; with auto-scale on the ranges of the
\* render that follows are the automatic ranges under the new integer mode.
C12_IntegerToggleKeepsManual ==
    [][lastOp'.name = "integerTicks" =>
          IF ~config'.autoScale
          THEN \A d \in DOMAIN dimensionConfig :
                  /\ d \in DOMAIN dimensionConfig'
                  /\ dimensionConfig'[d].min = dimensionConfig[d].min
                  /\ dimensionConfig'[d].max = dimensionConfig[d].max
          ELSE \A i \in 1..Len(rendered'.ranges) :
                  LET auto == AutoBounds(DimValues(chartData', models',
                                                   dimensions'[i]),
                                         config'.integerTicks)
                  IN /\ rendered'.ranges[i].min = auto.min
                     /\ rendered'.ranges[i].max = auto.max
                     /\ auto.min % (IF config'.integerTicks THEN 100 ELSE 10) = 0
                     /\ auto.max % (IF config'.integerTicks THEN 100 ELSE 10) = 0]_vars

\* integer mode has just been switched on in manual mode and a stored max
\* that is no integer is still there
C12_Witness ==
    /\ lastOp.name = "integerTicks"
    /\ ~config.autoScale
    /\ config.integerTicks
    /\ \E d \in Range(dimensions) : Entry(d).max % 10 # 0

\* C13: for a non-empty set of finite observed values the automatic range,
\* as drawn in auto-scale mode and as stored for a new dimension, is the
\* specified one: the observed min times 0.9 rounded down and the observed
\* max times 1.1 rounded up, to multiples of 10 in integer mode and of 1
\* otherwise; and its min is not negative when no observed value is.
C13_AutoRangeAsSpecified ==
    /\ config.autoScale =>
          \A i \in AxisIndexes :
              LET values == Observed(dimensions[i])
                  range == rendered.ranges[i]
              IN AllFinite(values) =>
                    /\ IsSpecifiedMin(range.min, Least(values), config.integerTicks)
                    /\ IsSpecifiedMax(range.max, Greatest(values), config.integerTicks)
                    /\ Least(values) >= 0 => range.min >= 0
    /\ (lastOp.name = "paste" /\ ~Parsed.isNull) =>
          \A dim \in Range(dimensions) :
              AllFinite(Observed(dim)) =>
                  /\ IsSpecifiedMin(Entry(dim).min, Least(Observed(dim)),
                                    config.integerTicks)
                  /\ IsSpecifiedMax(Entry(dim).max, Greatest(Observed(dim)),
                                    config.integerTicks)

\* C14: palette colors go by first-seen index: the k-th distinct name to
\* receive one receives entry k modulo 7.  While at most 7 names have a
\* color, the palette colors of two names therefore differ, and each is one
\* of the first entries, as many as there are names.
C14_FirstSeenPalette ==
    LET palette == Range(DEFAULT_COLORS)
        count == Cardinality(DOMAIN colors)
    IN count <= Len(DEFAULT_COLORS) =>
          /\ \A m1 \in DOMAIN colors : \A m2 \in DOMAIN colors :
                (m1 # m2 /\ colors[m1] \in palette /\ colors[m2] \in palette)
                    => colors[m1] # colors[m2]
          /\ \A m \in DOMAIN colors :
                colors[m] \in palette =>
                    \E k \in 1..count : colors[m] = DEFAULT_COLORS[k]

\* C15: whatever rows share a first cell, each series name of the table is
\* in the series sequence exactly once, and the value stored for it on each
\* dimension is that of the last row bearing the name.
C15_SeriesNamesUnique ==
    LET rows == ParseRows(inputText)
    IN ~Parsed.isNull =>
          \A r \in 2..Len(rows) :
              /\ Cardinality({k \in 1..Len(models) : models[k] = rows[r][1]}) = 1
              /\ IsLastOfName(rows, r) =>
                    \A i \in 1..Len(chartData) :
                        chartData[i][rows[r][1]].num = CellValue(rows[r], i - 1)

UntouchedSettings ==
    [d \in DOMAIN dimensionConfig |->
        [min |-> 0, max |-> 10, unit |-> <<>>, reverse |-> FALSE]]

\* C17: in auto-scale mode the stored settings are ignored: the chart is
\* the one drawn for the same data and config in a session whose stored
\* settings are untouched (same ranges, ratios and axis labels).
C17_AutoIgnoresSettings ==
    (config.autoScale /\ rendered.drawn) =>
        LET other == drawChart(chartData, models, dimensions,
                               UntouchedSettings, config)
        IN /\ rendered.ranges = other.ranges
           /\ rendered.points = other.points
           /\ rendered.labels = other.labels

C19_ManualRangeIsStored ==
    ~config.autoScale =>
        \A i \in AxisIndexes :
            /\ rendered.ranges[i].min = Entry(dimensions[i]).min
            /\ rendered.ranges[i].max = Entry(dimensions[i]).max

\* C20: in integer mode an edit of min or max with a number stores an
\* integer in the bound edited.
C20_IntegerEditStoresInteger ==
    (lastOp.name = "edit" /\ ~isNaN(parseFloat(lastOp.arg)) /\ config.integerTicks) =>
        IF lastOp.field = "min"
        THEN Entry(lastOp.key).min % 10 = 0
        ELSE Entry(lastOp.key).max % 10 = 0

\* the values of all series in column i of the table, read off the rows
\* (of rows sharing a name the last one is the series)
ColumnValues(rows, i) ==
    {CellValue(rows[r], i - 1) : r \in {q \in 2..Len(rows) : IsLastOfName(rows, q)}}

\* C21: after a successful parse the i-th record has the i-th dimension for
\* its subject, whatever the series are called, and the values selected by
\* that subject are those of all series in column i, never none.
C21_SubjectIsDimension ==
    ~Parsed.isNull =>
        \A i \in 1..Len(dimensions) :
            /\ chartData[i][SubjectKey] = Str(dimensions[i])
            /\ Range(DimValues(chartData, models, dimensions[i]))
                  = ColumnValues(ParseRows(inputText), i)
            /\ DimValues(chartData, models, dimensions[i]) # <<>>

\* C22: for the same chartData, models and integer mode, the min and max
\* initDimensionConfig stores for a dimension without an entry are those
\* drawChart computes for it in auto-scale mode; so after a paste of new
\* dimensions in auto-scale mode the stored range is the drawn one.
C22_StoredEqualsDrawn ==
    /\ \A dim \in Range(dimensions) : \A integerTicks \in BOOLEAN :
          LET cfg == [autoScale |-> TRUE, integerTicks |-> integerTicks]
              stored == NewDimensionEntry(chartData, models, cfg, dim)
              drawn == AutoRange(chartData, models, <<>>, cfg, dim)
          IN stored.min = drawn.min /\ stored.max = drawn.max
    /\ (lastOp.name = "paste" /\ ~Parsed.isNull /\ inputText # DefaultText) =>
          \A i \in AxisIndexes :
              /\ Entry(dimensions[i]).min = rendered.ranges[i].min
              /\ Entry(dimensions[i]).max = rendered.ranges[i].max

\* a table of new dimensions has just been pasted and an axis is drawn on
\* the finite range 0..20 stored for it
C22_Witness ==
    /\ lastOp.name = "paste"
    /\ ~Parsed.isNull
    /\ \E i \in AxisIndexes :
          /\ Entry(dimensions[i]).min = 0
          /\ Entry(dimensions[i]).max = 200
          /\ rendered.ranges[i].min = 0
          /\ rendered.ranges[i].max = 200

====
